---------------------------- MODULE Spec2Model ----------------------------
(***************************************************************************)
(* Food Waste Reduction System (src/food_waste_reduction_system.py).       *)
(*                                                                         *)
(* The six operations of the module are functions over plain Python data. *)
(* The model is a caller that, from an idle state, calls one operation on  *)
(* arguments drawn from bounded sets, records the outcome (the returned    *)
(* value or the exception that escaped), and returns to idle.  The only    *)
(* state the operations read besides their arguments is the calendar date *)
(* (datetime.date.today()), which the environment advances at midnight.    *)
(*                                                                         *)
(* Python values are tagged records [k, s, n]: k is the type, s the text   *)
(* of a str, n the number of an int / bool (floats: n in tenths, s = "nan" *)
(* for the NaN).  A dict is a total map from the field names to values in  *)
(* which the value Absent marks a key that is not in the dict.             *)
(***************************************************************************)
EXTENDS Integers, Sequences, FiniteSets, TLC

VARIABLES today, pc, op, arg, arg2, ret, after, after2,
          \* a caller that calls twice with the same arguments: the outcome
          \* and the day of the first call, and the calls made in between
          first, between,
          \* callers in threads: the two collections they share, and each
          \* thread's frame (its position and its local variables)
          inventory, shared_recipients, thread

vars ==
    <<today, pc, op, arg, arg2, ret, after, after2, first, between,
      inventory, shared_recipients, thread>>

---------------------------------------------------------------------------
(* Bounds of the model *)

\* longest list handed to a list operation
MaxLen == 3
\* how many past / future days around the first day the date texts cover
PastDays == 3
FutureDays == 9
\* how many midnights pass
MaxMidnights == 1
\* longest list of recipients
MaxRecipients == 2
\* longest list handed to a call that is made twice
RepeatLen == 2
\* how many other calls are made between the two
MaxBetween == 1
\* longest inventory the threads share
ThreadLen == 2

---------------------------------------------------------------------------
(* Python values *)

Absent == [k |-> "absent", s |-> "", n |-> 0]
None == [k |-> "none", s |-> "", n |-> 0]
PyStr(t) == [k |-> "str", s |-> t, n |-> 0]
PyInt(i) == [k |-> "int", s |-> "", n |-> i]
PyBool(b) == [k |-> "bool", s |-> "", n |-> IF b THEN 1 ELSE 0]
\* a finite float, in tenths
PyFloat(tenths) == [k |-> "float", s |-> "", n |-> tenths]
NaN == [k |-> "float", s |-> "nan", n |-> 0]
EmptyList == [k |-> "list", s |-> "", n |-> 0]
EmptyDict == [k |-> "dict", s |-> "", n |-> 0]

\* isinstance(v, str)
IsStr(v) == v.k = "str"
\* isinstance(v, int): bool is a subclass of int
IsInt(v) == v.k \in {"int", "bool"}
\* isinstance(v, (int, float))
IsIntOrFloat(v) == v.k \in {"int", "bool", "float"}
IsNaN(v) == v.k = "float" /\ v.s = "nan"
\* a plausible slip: quantity <= 0 for quantity < 0
LtZero_OrZero(v) == ~IsNaN(v) /\ v.n <= 0

\* v < 0 for a number v: every comparison with NaN is False
LtZero(v) == ~IsNaN(v) /\ v.n < 0

Fields ==
    {"id", "name", "category", "quantity", "unit", "expiration_date",
     "storage_location"}

\* an argument or list element: a dict (f maps each key to its value or
\* Absent) or any other value v
Dict(f) == [isdict |-> TRUE, v |-> EmptyDict, f |-> f]
NonDict(v) == [isdict |-> FALSE, v |-> v, f |-> [x \in Fields |-> Absent]]
\* key in d
Has(d, key) == d.f[key] # Absent

\* the outcome of a call: the value returned, or the exception raised
Return(v) == [exc |-> "", val |-> v]
Raise(e, v) == [exc |-> e, val |-> v]

---------------------------------------------------------------------------
(* Text: a str is a TLA+ string; its characters are needed to parse and   *)
(* to compare it, so the texts that are parsed or compared are built from  *)
(* character sequences.                                                    *)

RECURSIVE Text(_)
Text(cs) == IF cs = <<>> THEN "" ELSE Head(cs) \o Text(Tail(cs))

Digits == <<"0", "1", "2", "3", "4", "5", "6", "7", "8", "9">>
IsDigit(c) == \E i \in 1..10 : Digits[i] = c
DigitVal(c) == (CHOOSE i \in 1..10 : Digits[i] = c) - 1
DigitChar(i) == Digits[i + 1]

---------------------------------------------------------------------------
(* Calendar: datetime.date *)

IsLeap(y) == (y % 4 = 0) /\ ((y % 100 # 0) \/ (y % 400 = 0))

DaysInMonth(y, m) ==
    IF m = 2 THEN (IF IsLeap(y) THEN 29 ELSE 28)
    ELSE IF m \in {4, 6, 9, 11} THEN 30 ELSE 31

Date(y, m, d) == [y |-> y, m |-> m, d |-> d]

\* the day after / before a date
NextDay(dt) ==
    IF dt.d < DaysInMonth(dt.y, dt.m) THEN Date(dt.y, dt.m, dt.d + 1)
    ELSE IF dt.m < 12 THEN Date(dt.y, dt.m + 1, 1)
    ELSE Date(dt.y + 1, 1, 1)

PrevDay(dt) ==
    IF dt.d > 1 THEN Date(dt.y, dt.m, dt.d - 1)
    ELSE IF dt.m > 1 THEN Date(dt.y, dt.m - 1, DaysInMonth(dt.y, dt.m - 1))
    ELSE Date(dt.y - 1, 12, 31)

\* dt + timedelta(days=k)
RECURSIVE AddDays(_, _)
AddDays(dt, k) ==
    IF k = 0 THEN dt
    ELSE IF k = 1 THEN NextDay(dt)
    ELSE IF k = 0 - 1 THEN PrevDay(dt)
    ELSE AddDays(AddDays(dt, k \div 2), k - (k \div 2))

\* dt.strftime("%Y-%m-%d"), as characters
Strftime(dt) ==
    << DigitChar(dt.y \div 1000), DigitChar((dt.y \div 100) % 10),
       DigitChar((dt.y \div 10) % 10), DigitChar(dt.y % 10), "-",
       DigitChar(dt.m \div 10), DigitChar(dt.m % 10), "-",
       DigitChar(dt.d \div 10), DigitChar(dt.d % 10) >>

\* date.toordinal(): days since 0001-01-01, plus one
RECURSIVE DaysBeforeMonth(_, _)
DaysBeforeMonth(y, m) ==
    IF m = 1 THEN 0 ELSE DaysBeforeMonth(y, m - 1) + DaysInMonth(y, m - 1)

DaysBeforeYear(y) ==
    (y - 1) * 365 + ((y - 1) \div 4) - ((y - 1) \div 100) + ((y - 1) \div 400)

ToOrdinal(dt) == DaysBeforeYear(dt.y) + DaysBeforeMonth(dt.y, dt.m) + dt.d

---------------------------------------------------------------------------
(* datetime.datetime.strptime(text, "%Y-%m-%d").date()                     *)
(*                                                                         *)
(* strptime compiles the format to the regular expression                  *)
(*   (?P<Y>\d\d\d\d)-(?P<m>1[0-2]|0[1-9]|[1-9])                            *)
(*                  -(?P<d>3[01]|[12]\d|0[1-9]|[1-9]| [1-9])               *)
(* matches it at the start of the text, rejects text left over after the   *)
(* match, and builds the date, which rejects year 0 and a day that the     *)
(* month does not have.  Every rejection is a ValueError.                  *)

\* the characters of cs from position i on
From(cs, i) == SubSeq(cs, i, Len(cs))

\* the lengths of the prefixes of cs that the month pattern can match, in
\* the order the regular expression tries its alternatives
MonthMatches(cs) ==
    LET two == Len(cs) >= 2
        a1 == two /\ cs[1] = "1" /\ cs[2] \in {"0", "1", "2"}
        a2 == two /\ cs[1] = "0" /\ IsDigit(cs[2]) /\ cs[2] # "0"
        a3 == Len(cs) >= 1 /\ IsDigit(cs[1]) /\ cs[1] # "0"
    IN  (IF a1 \/ a2 THEN <<2>> ELSE <<>>) \o (IF a3 THEN <<1>> ELSE <<>>)

\* the length of the prefix of cs the day pattern matches (0: none); it is
\* the last group, so the first alternative that matches is taken
DayMatch(cs) ==
    LET two == Len(cs) >= 2
        a1 == two /\ cs[1] = "3" /\ cs[2] \in {"0", "1"}
        a2 == two /\ cs[1] \in {"1", "2"} /\ IsDigit(cs[2])
        a3 == two /\ cs[1] = "0" /\ IsDigit(cs[2]) /\ cs[2] # "0"
        a4 == Len(cs) >= 1 /\ IsDigit(cs[1]) /\ cs[1] # "0"
        a5 == two /\ cs[1] = " " /\ IsDigit(cs[2]) /\ cs[2] # "0"
    IN  IF a1 \/ a2 \/ a3 \/ a5 THEN 2 ELSE IF a4 THEN 1 ELSE 0

\* the number a matched group stands for (int() of its text)
RECURSIVE GroupValue(_)
GroupValue(cs) ==
    IF cs = <<>> THEN 0
    ELSE IF cs[Len(cs)] = " " THEN 0
    ELSE GroupValue(SubSeq(cs, 1, Len(cs) - 1)) * 10 + DigitVal(cs[Len(cs)])

ValueError == [ok |-> FALSE, date |-> Date(0, 0, 0)]

\* the date built from the matched groups
BuildDate(y, m, d) ==
    IF y < 1 \/ d > DaysInMonth(y, m) THEN ValueError
    ELSE [ok |-> TRUE, date |-> Date(y, m, d)]

\* the rest of the match once the month group has matched mlen characters
AfterMonth(cs, mlen) ==
    LET rest == From(cs, 6 + mlen)
    IN  IF rest = <<>> \/ rest[1] # "-" THEN ValueError
        ELSE LET dcs == Tail(rest)
                 dlen == DayMatch(dcs)
             IN  IF dlen = 0 \/ dlen # Len(dcs) THEN ValueError
                 ELSE BuildDate(GroupValue(SubSeq(cs, 1, 4)),
                                GroupValue(SubSeq(cs, 6, 5 + mlen)),
                                GroupValue(SubSeq(dcs, 1, dlen)))

\* whether the pattern up to and including the second "-" matches with the
\* month group taking mlen characters
MonthFits(cs, mlen) ==
    LET rest == From(cs, 6 + mlen)
    IN  /\ rest # <<>> /\ rest[1] = "-"
        /\ DayMatch(Tail(rest)) # 0

Strptime(cs) ==
    IF ~(Len(cs) >= 5 /\ (\A i \in 1..4 : IsDigit(cs[i])) /\ cs[5] = "-")
    THEN ValueError
    ELSE LET ms == MonthMatches(From(cs, 6))
             fit == SelectSeq(ms, LAMBDA l : MonthFits(cs, l))
         IN  IF fit = <<>> THEN ValueError ELSE AfterMonth(cs, fit[1])

---------------------------------------------------------------------------
(* The texts handed to the date arithmetic *)

\* texts strptime rejects, one per way of being unparsable
GarbageChars ==
    { <<"2", "0", "2", "3", "/", "1", "2", "/", "1", "5">>,
      <<"1", "2", "/", "1", "5", "/", "2", "0", "2", "3">>,
      <<"1", "5", "-", "1", "2", "-", "2", "0", "2", "3">>,
      <<"2", "0", "2", "3", "-", "1", "3", "-", "0", "1">>,
      <<"2", "0", "2", "3", "-", "0", "0", "-", "1", "0">>,
      <<"2", "0", "2", "3", "-", "1", "3", "-", "4", "5">>,
      <<"2", "0", "2", "3", "-", "1", "2", "-", "3", "2">>,
      <<"2", "0", "2", "3", "-", "0", "2", "-", "3", "0">>,
      <<"2", "0", "2", "3", "-", "0", "2", "-", "2", "9">>,
      <<"2", "0", "2", "3", "-", "0", "4", "-", "3", "1">>,
      <<"a", "b", "c", "d", "-", "e", "f", "-", "g", "h">>,
      <<"n", "o", "t", " ", "a", " ", "d", "a", "t", "e">>,
      <<"0", "0", "0", "0", "-", "0", "1", "-", "0", "1">>,
      <<"2", "0", "2", "3", "-", "1", "2", "-", "1", "5", " ">>,
      <<"2", "0", "2", "3", "-", "1", "2">>,
      <<>> }

\* texts strptime accepts besides the padded ones: unpadded month and day,
\* a space-padded day, 29 February of a leap year, the last day there is
OddChars ==
    { <<"2", "0", "2", "4", "-", "3", "-", "1">>,
      <<"2", "0", "2", "4", "-", "0", "2", "-", " ", "5">>,
      <<"2", "0", "2", "4", "-", "0", "2", "-", "2", "9">>,
      <<"9", "9", "9", "9", "-", "1", "2", "-", "3", "1">> }

\* the first day of a run
StartDays == {Date(2024, 2, 27)}

Offsets == (0 - PastDays)..FutureDays

\* every day the clock can show
Days == {AddDays(d0, k) : d0 \in StartDays, k \in 0..MaxMidnights}

\* (today + timedelta(days=k)).strftime("%Y-%m-%d") for the days around
PaddedChars == {Strftime(AddDays(d0, k)) : d0 \in Days, k \in Offsets}

AllChars == GarbageChars \cup OddChars \cup PaddedChars

\* the characters of a text
CharsOf == [t \in {Text(cs) : cs \in AllChars} |->
               CHOOSE cs \in AllChars : Text(cs) = t]

---------------------------------------------------------------------------
(* calculate_days_until_expiration *)

\* a plausible slip: today - expiration instead of expiration - today
calculate_days_until_expiration_Reversed(expiration_date) ==
    IF expiration_date = None THEN Return(0 - 1)
    ELSE IF ~IsStr(expiration_date) THEN Raise("TypeError", 0)
    ELSE LET parsed == Strptime(CharsOf[expiration_date.s])
         IN  IF ~parsed.ok THEN Return(0 - 1)
             ELSE Return(ToOrdinal(today) - ToOrdinal(parsed.date))

\* a plausible slip: 0 for the sentinel -1 in the except branch
calculate_days_until_expiration_ZeroOnError(expiration_date) ==
    IF expiration_date = None THEN Return(0 - 1)
    ELSE IF ~IsStr(expiration_date) THEN Raise("TypeError", 0)
    ELSE LET parsed == Strptime(CharsOf[expiration_date.s])
         IN  IF ~parsed.ok THEN Return(0)
             ELSE Return(ToOrdinal(parsed.date) - ToOrdinal(today))

\* a plausible slip: abs() of the difference, the distance in days
calculate_days_until_expiration_Absolute(expiration_date) ==
    IF expiration_date = None THEN Return(0 - 1)
    ELSE IF ~IsStr(expiration_date) THEN Raise("TypeError", 0)
    ELSE LET parsed == Strptime(CharsOf[expiration_date.s])
             days == ToOrdinal(parsed.date) - ToOrdinal(today)
         IN  IF ~parsed.ok THEN Return(0 - 1)
             ELSE Return(IF days < 0 THEN 0 - days ELSE days)

calculate_days_until_expiration(expiration_date) ==
    IF expiration_date = None THEN Return(0 - 1)
    ELSE IF ~IsStr(expiration_date) THEN Raise("TypeError", 0)
    ELSE LET parsed == Strptime(CharsOf[expiration_date.s])
         IN  IF ~parsed.ok THEN Return(0 - 1)
             ELSE Return(ToOrdinal(parsed.date) - ToOrdinal(today))

---------------------------------------------------------------------------
(* validate_food_item *)

\* a plausible slip: a field left out of the list
required_fields_WithoutUnit ==
    <<"id", "name", "category", "quantity", "expiration_date",
      "storage_location">>

required_fields ==
    <<"id", "name", "category", "quantity", "unit", "expiration_date",
      "storage_location">>

\* a plausible slip: a category left out of the list
valid_categories_WithoutDryGoods ==
    <<"Produce", "Dairy", "Bakery", "Meat", "Frozen", "Canned", "Prepared">>

valid_categories ==
    <<"Produce", "Dairy", "Bakery", "Meat", "Frozen", "Canned", "Dry Goods",
      "Prepared">>

\* sep.join(texts)
RECURSIVE Join(_, _)
Join(texts, sep) ==
    IF texts = <<>> THEN ""
    ELSE IF Len(texts) = 1 THEN texts[1]
    ELSE texts[1] \o sep \o Join(Tail(texts), sep)

Result(is_valid, message) == [is_valid |-> is_valid, message |-> message]

\* a plausible slip: the loop remembers the last missing field instead of
\* returning at the first
RECURSIVE MissingFrom_Last(_, _)
MissingFrom_Last(food_item, i) ==
    IF i > Len(required_fields) THEN ""
    ELSE LET later == MissingFrom_Last(food_item, i + 1)
         IN  IF later # "" THEN later
             ELSE IF ~Has(food_item, required_fields[i])
             THEN required_fields[i]
             ELSE ""

\* the loop over required_fields from index i: the first field not in the
\* dict, or "" when the loop ends
RECURSIVE MissingFrom(_, _)
MissingFrom(food_item, i) ==
    IF i > Len(required_fields) THEN ""
    ELSE IF ~Has(food_item, required_fields[i]) THEN required_fields[i]
    ELSE MissingFrom(food_item, i + 1)

\* the checks on a dict: the fields, then the types
ValidateDict(food_item) ==
         LET missing == MissingFrom(food_item, 1)
             f == food_item.f
         IN  IF missing # ""
             THEN Return(Result(FALSE, "Missing required field: " \o missing))
             ELSE IF ~IsStr(f["id"])
             THEN Return(Result(FALSE, "ID must be a string"))
             ELSE IF ~IsStr(f["name"])
             THEN Return(Result(FALSE, "Name must be a string"))
             ELSE IF ~IsIntOrFloat(f["quantity"]) \/ LtZero(f["quantity"])
             THEN Return(Result(FALSE, "Quantity must be a positive number"))
             ELSE IF ~IsStr(f["category"])
             THEN Return(Result(FALSE, "Category must be a string"))
             ELSE IF ~(\E i \in 1..Len(valid_categories) :
                          valid_categories[i] = f["category"].s)
             THEN Return(Result(FALSE, "Invalid category. Must be one of: "
                                        \o Join(valid_categories, ", ")))
             ELSE Return(Result(TRUE, "Food item data is valid"))

\* a plausible slip: the guard on the argument's type left out, so that a
\* str, in which no field name occurs, goes on to the field check
validate_food_item_Unguarded(food_item) == ValidateDict(food_item)

validate_food_item(food_item) ==
    IF ~food_item.isdict
    THEN Return(Result(FALSE, "Food item must be a dictionary"))
    ELSE ValidateDict(food_item)

---------------------------------------------------------------------------
(* Collections: an argument that should be a list *)

List(l) == [k |-> "list", l |-> l]
\* None, a str, an int, a dict, a tuple: anything that is not a list
NotAList(kind) == [k |-> kind, l |-> <<>>]
IsList(c) == c.k = "list"

---------------------------------------------------------------------------
(* identify_expiring_items *)

DefaultThreshold == 7

\* a plausible slip: expiring_items.insert(0, item) for append(item)
RECURSIVE ExpiringLoop_Prepend(_, _, _, _)
ExpiringLoop_Prepend(items, i, threshold, acc) ==
    IF i > Len(items) THEN Return(acc)
    ELSE LET item == items[i]
         IN  IF ~item.isdict \/ ~Has(item, "expiration_date")
             THEN ExpiringLoop_Prepend(items, i + 1, threshold, acc)
             ELSE LET days ==
                          calculate_days_until_expiration(
                              item.f["expiration_date"])
                  IN  IF days.exc # "" THEN Raise(days.exc, <<>>)
                      ELSE IF 0 <= days.val /\ days.val <= threshold
                      THEN ExpiringLoop_Prepend(items, i + 1, threshold,
                                                <<item>> \o acc)
                      ELSE ExpiringLoop_Prepend(items, i + 1, threshold, acc)

\* the loop over food_items from index i, expiring_items being acc
RECURSIVE ExpiringLoop(_, _, _, _)
ExpiringLoop(items, i, threshold, acc) ==
    IF i > Len(items) THEN Return(acc)
    ELSE LET item == items[i]
         IN  IF ~item.isdict \/ ~Has(item, "expiration_date")
             THEN ExpiringLoop(items, i + 1, threshold, acc)
             ELSE LET days ==
                          calculate_days_until_expiration(
                              item.f["expiration_date"])
                  IN  IF days.exc # "" THEN Raise(days.exc, <<>>)
                      ELSE IF 0 <= days.val /\ days.val <= threshold
                      THEN ExpiringLoop(items, i + 1, threshold,
                                        Append(acc, item))
                      ELSE ExpiringLoop(items, i + 1, threshold, acc)

\* a plausible slip: only None replaced by the default, the isinstance test
\* left out, so that a float is taken as the threshold and a str meets an
\* int in a comparison
identify_expiring_items_NoneOnly(food_items, days_threshold) ==
    IF ~IsList(food_items) THEN Return(<<>>)
    ELSE IF days_threshold = None
    THEN ExpiringLoop(food_items.l, 1, DefaultThreshold, <<>>)
    ELSE IF ~IsIntOrFloat(days_threshold) THEN Raise("TypeError", <<>>)
    ELSE ExpiringLoop(food_items.l, 1,
                      IF days_threshold.k = "float"
                      THEN days_threshold.n \div 10 ELSE days_threshold.n,
                      <<>>)

identify_expiring_items(food_items, days_threshold) ==
    IF ~IsList(food_items) THEN Return(<<>>)
    ELSE LET threshold ==
                 IF days_threshold = None \/ ~IsInt(days_threshold)
                 THEN DefaultThreshold
                 ELSE days_threshold.n
         IN  ExpiringLoop(food_items.l, 1, threshold, <<>>)

---------------------------------------------------------------------------
(* sort_items_by_expiration *)

\* characters in code point order
Alphabet ==
    <<" ", "-", "/", "0", "1", "2", "3", "4", "5", "6", "7", "8", "9",
      "a", "b", "c", "d", "e", "f", "g", "h", "n", "o", "t">>
Ord(c) == CHOOSE i \in 1..Len(Alphabet) : Alphabet[i] = c

\* a < b for two str: the order of the first character that differs, a
\* proper prefix coming first
RECURSIVE CharsLt(_, _)
CharsLt(a, b) ==
    IF b = <<>> THEN FALSE
    ELSE IF a = <<>> THEN TRUE
    ELSE IF Head(a) # Head(b) THEN Ord(Head(a)) < Ord(Head(b))
    ELSE CharsLt(Tail(a), Tail(b))

\* a plausible slip: the least date for a record without one
SortSentinel_Minimum == "0000-01-01"

SortSentinel == "9999-12-31"

\* a plausible slip: the days left, which depend on the day, as the key
SortKey_DaysLeft(x) ==
    IF x.isdict /\ Has(x, "expiration_date")
    THEN PyInt(calculate_days_until_expiration(x.f["expiration_date"]).val)
    ELSE PyInt(3000000)

\* the key function of the sort
SortKey(x) ==
    IF x.isdict /\ Has(x, "expiration_date") THEN x.f["expiration_date"]
    ELSE PyStr(SortSentinel)

IsNumber(v) == IsIntOrFloat(v) /\ ~IsNaN(v)
\* the number of an int, bool or float, in tenths
Tenths(v) == IF v.k = "float" THEN v.n ELSE 10 * v.n

\* whether a < b is defined for two keys
Comparable(a, b) ==
    \/ IsStr(a) /\ IsStr(b)
    \/ IsNumber(a) /\ IsNumber(b)

KeyLt(a, b) ==
    IF IsStr(a) THEN CharsLt(CharsOf[a.s], CharsOf[b.s])
    ELSE Tenths(a) < Tenths(b)

\* a plausible slip: reverse=True, the latest date first
RECURSIVE InsertSorted_Descending(_, _)
InsertSorted_Descending(s, x) ==
    IF s = <<>> THEN <<x>>
    ELSE IF KeyLt(SortKey(s[1]), SortKey(x)) THEN <<x>> \o s
    ELSE <<s[1]>> \o InsertSorted_Descending(Tail(s), x)

\* a plausible slip: a sort that is not stable, x going before the elements
\* whose key equals its own
RECURSIVE InsertSorted_BeforeEqual(_, _)
InsertSorted_BeforeEqual(s, x) ==
    IF s = <<>> THEN <<x>>
    ELSE IF ~KeyLt(SortKey(s[1]), SortKey(x)) THEN <<x>> \o s
    ELSE <<s[1]>> \o InsertSorted_BeforeEqual(Tail(s), x)

\* x inserted into the sorted sequence s after every element whose key is
\* not greater than x's
RECURSIVE InsertSorted(_, _)
InsertSorted(s, x) ==
    IF s = <<>> THEN <<x>>
    ELSE IF KeyLt(SortKey(x), SortKey(s[1])) THEN <<x>> \o s
    ELSE <<s[1]>> \o InsertSorted(Tail(s), x)

\* sorted(items, key=SortKey): stable
RECURSIVE Sorted(_)
Sorted(items) ==
    IF items = <<>> THEN <<>>
    ELSE InsertSorted(Sorted(SubSeq(items, 1, Len(items) - 1)),
                      items[Len(items)])

\* a plausible slip: the guard on the argument's type left out, so that
\* .copy() is called on what is no list
sort_items_by_expiration_Unguarded(food_items) ==
    IF ~IsList(food_items) THEN Raise("AttributeError", <<>>)
    ELSE LET items == food_items.l
         IN  IF \E i, j \in 1..Len(items) :
                    i # j /\ ~Comparable(SortKey(items[i]), SortKey(items[j]))
             THEN Raise("TypeError", <<>>)
             ELSE Return(Sorted(items))

sort_items_by_expiration(food_items) ==
    IF ~IsList(food_items) THEN Return(<<>>)
    ELSE LET items == food_items.l
         IN  IF \E i, j \in 1..Len(items) :
                    i # j /\ ~Comparable(SortKey(items[i]), SortKey(items[j]))
             THEN Raise("TypeError", <<>>)
             ELSE Return(Sorted(items))

---------------------------------------------------------------------------
(* match_donations *)

\* the accepts_categories value of a recipient: a list of str, or another
\* value, or not there
Accepts(l) == [k |-> "list", l |-> l]
AcceptsOther(kind) == [k |-> kind, l |-> <<>>]
Recipient(id, acc) == [isdict |-> TRUE, v |-> EmptyDict, id |-> id, acc |-> acc]
NonDictRecipient(v) ==
    [isdict |-> FALSE, v |-> v, id |-> "", acc |-> AcceptsOther("absent")]

\* a plausible slip: the test for accepts_categories left out of the guard,
\* a recipient without the key taking the item
RECURSIVE RecipientLoop_AnyRecipient(_, _, _)
RecipientLoop_AnyRecipient(item_category, recipients, j) ==
    IF j > Len(recipients) THEN 0
    ELSE LET recipient == recipients[j]
         IN  IF ~recipient.isdict
             THEN RecipientLoop_AnyRecipient(item_category, recipients, j + 1)
             ELSE IF recipient.acc.k = "absent" THEN j
             ELSE IF recipient.acc.k # "list" THEN 0 - 1
             ELSE IF \E n \in 1..Len(recipient.acc.l) :
                         PyStr(recipient.acc.l[n]) = item_category
             THEN j
             ELSE RecipientLoop_AnyRecipient(item_category, recipients, j + 1)

\* the loop over recipients from index j for one item: the index of the
\* first recipient that accepts the category, 0 when the loop ends without
\* one, -1 when the membership test raises
RECURSIVE RecipientLoop(_, _, _)
RecipientLoop(item_category, recipients, j) ==
    IF j > Len(recipients) THEN 0
    ELSE LET recipient == recipients[j]
         IN  IF ~recipient.isdict \/ recipient.acc.k = "absent"
             THEN RecipientLoop(item_category, recipients, j + 1)
             ELSE IF recipient.acc.k # "list" THEN 0 - 1
             ELSE IF \E n \in 1..Len(recipient.acc.l) :
                         PyStr(recipient.acc.l[n]) = item_category
             THEN j
             ELSE RecipientLoop(item_category, recipients, j + 1)

Match(item, recipient) == [item |-> item, recipient |-> recipient]

\* a plausible slip: a matcher that knows capacity, a recipient that took an
\* item being passed over for the items after it
RECURSIVE MatchLoop_OncePerRecipient(_, _, _, _)
MatchLoop_OncePerRecipient(items, recipients, i, acc) ==
    IF i > Len(items) THEN Return(acc)
    ELSE LET item == items[i]
             free == SelectSeq(recipients,
                         LAMBDA r : \A n \in 1..Len(acc) :
                                       acc[n].recipient # r)
         IN  IF ~item.isdict \/ ~Has(item, "category")
             THEN MatchLoop_OncePerRecipient(items, recipients, i + 1, acc)
             ELSE LET j == RecipientLoop(item.f["category"], free, 1)
                  IN  IF j < 0 THEN Raise("TypeError", <<>>)
                      ELSE IF j = 0
                      THEN MatchLoop_OncePerRecipient(items, recipients,
                                                      i + 1, acc)
                      ELSE MatchLoop_OncePerRecipient(
                               items, recipients, i + 1,
                               Append(acc, Match(item, free[j])))

\* the loop over food_items from index i, matches being acc
RECURSIVE MatchLoop(_, _, _, _)
MatchLoop(items, recipients, i, acc) ==
    IF i > Len(items) THEN Return(acc)
    ELSE LET item == items[i]
         IN  IF ~item.isdict \/ ~Has(item, "category")
             THEN MatchLoop(items, recipients, i + 1, acc)
             ELSE LET j == RecipientLoop(item.f["category"], recipients, 1)
                  IN  IF j < 0 THEN Raise("TypeError", <<>>)
                      ELSE IF j = 0
                      THEN MatchLoop(items, recipients, i + 1, acc)
                      ELSE MatchLoop(items, recipients, i + 1,
                                     Append(acc, Match(item, recipients[j])))

match_donations(food_items, recipients) ==
    IF ~IsList(food_items) \/ ~IsList(recipients) THEN Return(<<>>)
    ELSE MatchLoop(food_items.l, recipients.l, 1, <<>>)

---------------------------------------------------------------------------
(* format_food_item *)

\* the decimal digits of a natural number
RECURSIVE Decimal(_)
Decimal(n) ==
    IF n < 10 THEN DigitChar(n)
    ELSE Decimal(n \div 10) \o DigitChar(n % 10)

\* format(v, ""), the text a replacement field {v} of an f-string gives
Str(v) ==
    CASE v.k = "str" -> v.s
      [] v.k = "int" ->
            IF v.n < 0 THEN "-" \o Decimal(0 - v.n) ELSE Decimal(v.n)
      [] v.k = "bool" -> IF v.n = 1 THEN "True" ELSE "False"
      [] v.k = "float" ->
            IF IsNaN(v) THEN "nan"
            ELSE IF v.n < 0
            THEN "-" \o Decimal((0 - v.n) \div 10) \o "."
                     \o DigitChar((0 - v.n) % 10)
            ELSE Decimal(v.n \div 10) \o "." \o DigitChar(v.n % 10)
      [] v.k = "none" -> "None"
      [] v.k = "list" -> "[]"
      [] v.k = "dict" -> "{}"

\* the keys the f-string subscripts food_item with, in its order
FormatKeys ==
    <<"id", "name", "quantity", "unit", "category", "expiration_date">>

InvalidFormat == PyStr("Invalid food item format")

\* the f-string of a dict that has every key
FormatLine(f) ==
    Str(f["id"]) \o " | " \o Str(f["name"]) \o " | "
        \o Str(f["quantity"]) \o " " \o Str(f["unit"]) \o " | "
        \o Str(f["category"]) \o " | "
        \o "Expires: " \o Str(f["expiration_date"])

\* a plausible slip: the guard on the argument's type left out, so that
\* what is no dict is subscripted with 'id'; only KeyError is caught
format_food_item_Unguarded(food_item) ==
    IF ~food_item.isdict THEN Raise("TypeError", None)
    ELSE IF \E i \in 1..Len(FormatKeys) : ~Has(food_item, FormatKeys[i])
    THEN Return(InvalidFormat)
    ELSE Return(PyStr(FormatLine(food_item.f)))

\* a plausible slip: the line only for a record that has every required
\* field, storage_location included
format_food_item_AllRequired(food_item) ==
    IF ~food_item.isdict THEN Return(InvalidFormat)
    ELSE IF \E i \in 1..Len(required_fields) :
                ~Has(food_item, required_fields[i])
    THEN Return(InvalidFormat)
    ELSE Return(PyStr(FormatLine(food_item.f)))

\* a key that is not there raises KeyError, which is caught
format_food_item(food_item) ==
    IF ~food_item.isdict THEN Return(InvalidFormat)
    ELSE IF \E i \in 1..Len(FormatKeys) : ~Has(food_item, FormatKeys[i])
    THEN Return(InvalidFormat)
    ELSE Return(PyStr(FormatLine(food_item.f)))

---------------------------------------------------------------------------
(* The arguments as a call leaves them: <<first, second>>. No function     *)
(* assigns to, appends to, sorts or deletes from what it is handed: each   *)
(* builds its result in a new dict or list.                                *)

validate_food_item_leaves(food_item) == <<food_item, None>>
calculate_days_until_expiration_leaves(expiration_date) ==
    <<expiration_date, None>>
\* expiring_items is a new list; the items appended are not changed
identify_expiring_items_leaves(food_items, days_threshold) ==
    <<food_items, days_threshold>>

\* a plausible slip: food_items.sort(key=...) for sorted(copy, key=...)
sort_items_by_expiration_leaves_InPlace(food_items) ==
    IF sort_items_by_expiration(food_items).exc = "" /\ IsList(food_items)
    THEN <<List(sort_items_by_expiration(food_items).val), None>>
    ELSE <<food_items, None>>

\* sorted_items is a copy, and sorted() returns another new list
sort_items_by_expiration_leaves(food_items) == <<food_items, None>>
\* matches is a new list; its entries refer to the items and recipients
match_donations_leaves(food_items, recipients) == <<food_items, recipients>>
format_food_item_leaves(food_item) == <<food_item, None>>

---------------------------------------------------------------------------
(* The arguments the caller draws *)

\* the text of the day k days from dt, as the tests build it
DayText(dt, k) == Text(Strftime(AddDays(dt, k)))

IdValues == {Absent, PyStr("F001"), PyInt(1)}
NameValues == {Absent, PyStr("Apples"), None}
CategoryValues ==
    {Absent, PyStr("Snacks"), PyStr("produce"), PyInt(3), PyStr("Produce"),
     PyStr("Dairy"), PyStr("Bakery"), PyStr("Meat"), PyStr("Frozen"),
     PyStr("Canned"), PyStr("Dry Goods"), PyStr("Prepared")}
QuantityValues ==
    {Absent, PyInt(0 - 1), PyInt(0), PyInt(25), PyFloat(0 - 5), NaN,
     PyBool(TRUE), PyStr("25"), None}
UnitValues == {Absent, PyStr("kg")}
DateValues == {Absent, PyStr("2024-02-29"), PyStr("not a date")}
LocationValues == {Absent, PyStr("Cooler 3")}

\* a dict with the given value (or Absent) under each key
Item(id, name, category, quantity, unit, expiration_date, storage_location) ==
    Dict([x \in Fields |->
            CASE x = "id" -> id
              [] x = "name" -> name
              [] x = "category" -> category
              [] x = "quantity" -> quantity
              [] x = "unit" -> unit
              [] x = "expiration_date" -> expiration_date
              [] x = "storage_location" -> storage_location])

NonDicts ==
    {NonDict(None), NonDict(PyStr("not a dict")), NonDict(PyInt(123)),
     NonDict(EmptyList)}

ValidateInputs ==
    NonDicts \cup
    {Item(i, n, c, q, u, e, l) :
        i \in IdValues, n \in NameValues, c \in CategoryValues,
        q \in QuantityValues, u \in UnitValues, e \in DateValues,
        l \in LocationValues}

\* what is handed to the formatter: the same records and non-dicts
FormatInputs ==
    NonDicts \cup
    {Item(i, n, c, q, u, e, l) :
        i \in IdValues, n \in NameValues, c \in CategoryValues,
        q \in QuantityValues, u \in UnitValues, e \in DateValues,
        l \in LocationValues}

CalculateInputs ==
    {PyStr(Text(cs)) : cs \in AllChars}
        \cup {None, PyInt(20231215), PyFloat(15), PyBool(TRUE), EmptyList,
              EmptyDict}

\* a record of the inventory with an expiration date (or none)
Dated(expiration_date) ==
    Item(PyStr("F001"), PyStr("Apples"), PyStr("Produce"), PyInt(25),
         PyStr("kg"), expiration_date, PyStr("Cooler 3"))

\* list elements for the filter on day dt: records expiring yesterday,
\* today, in 7 and in 8 days, with an unparsable date, with a date that is
\* None or a number, without a date, and a non-dict
FilterElements(dt) ==
    {Dated(PyStr(DayText(dt, k))) : k \in {0 - 1, 0, 7, 8}}
        \cup {Dated(PyStr("2023/12/15")), Dated(None), Dated(PyInt(20231215)),
              Dated(Absent), NonDict(PyStr("not a dict"))}

Thresholds ==
    {PyInt(0 - 1), PyInt(0), PyInt(7), None, PyStr("not a number"),
     PyFloat(10), PyBool(TRUE)}

\* the lists of at most n elements of S
ListsUpTo(S, n) == UNION {[1..m -> S] : m \in 0..n}
ListsOf(S) == ListsUpTo(S, MaxLen)

NonLists ==
    {NotAList("none"), NotAList("str"), NotAList("int"), NotAList("dict")}

\* list elements for the sort
SortElements ==
    {Item(PyStr(i), Absent, Absent, Absent, Absent, e, Absent) :
        i \in {"F001", "F002"},
        e \in {PyStr("2024-02-29"), PyStr("2024-3-1")}}
        \cup {Dated(PyStr(DayText(Date(2024, 2, 27), 1))), Dated(Absent),
              Dated(None), Dated(PyInt(20231215)), NonDict(None),
              Dated(PyStr("9999-12-31")), Dated(PyStr("not a date")),
              Dated(PyStr(DayText(Date(2024, 2, 27), 4)))}

\* list elements for the matcher
MatchItems ==
    {Item(PyStr("F001"), Absent, c, Absent, Absent, Absent, Absent) :
        c \in {PyStr("Produce"), PyStr("Dairy"), Absent}}
        \cup {NonDict(PyStr("not a dict"))}

MatchRecipients ==
    {Recipient("R001", Accepts(<<"Produce", "Canned">>)),
     Recipient("R002", Accepts(<<"Dairy", "Produce">>)),
     Recipient("R004", AcceptsOther("absent")),
     Recipient("R005", AcceptsOther("none")),
     NonDictRecipient(PyStr("not a dict"))}

---------------------------------------------------------------------------
(* The caller *)

NoArg == None
NoReturn == Return(None)
\* no first call kept
NoFirst == [outcome |-> NoReturn, day |-> Date(1, 1, 1)]

\* the threads, and the frame of a thread that is in no call
Threads == {1, 2}
Ready ==
    [pc |-> "ready", op |-> "none", days_threshold |-> None, i |-> 1,
     j |-> 1, acc |-> <<>>, result |-> NoReturn]

Init ==
    /\ today \in StartDays
    /\ pc = "idle"
    /\ op = "none"
    /\ arg = NoArg
    /\ arg2 = NoArg
    /\ ret = NoReturn
    /\ after = NoArg
    /\ after2 = NoArg
    /\ first = NoFirst
    /\ between = 0
    /\ inventory = <<>>
    /\ shared_recipients = <<>>
    /\ thread = [t \in Threads |-> Ready]

\* what the caller's two arguments are after the call
Leaves(pair) ==
    /\ after' = pair[1]
    /\ after2' = pair[2]

Call(name, a, b, outcome) ==
    /\ pc' = "done"
    /\ op' = name
    /\ arg' = a
    /\ arg2' = b
    /\ ret' = outcome
    /\ UNCHANGED <<today, first, between, inventory, shared_recipients, thread>>

CallValidate ==
    /\ pc = "idle"
    /\ \E x \in ValidateInputs :
        /\ Call("validate_food_item", x, NoArg, validate_food_item(x))
        /\ Leaves(validate_food_item_leaves(x))

CallCalculate ==
    /\ pc = "idle"
    /\ \E x \in CalculateInputs :
        /\ Call("calculate_days_until_expiration", x, NoArg,
                calculate_days_until_expiration(x))
        /\ Leaves(calculate_days_until_expiration_leaves(x))

CallIdentify ==
    /\ pc = "idle"
    /\ \E c \in {List(l) : l \in ListsOf(FilterElements(today))} \cup NonLists :
        \E t \in Thresholds :
            /\ Call("identify_expiring_items", c, t,
                    identify_expiring_items(c, t))
            /\ Leaves(identify_expiring_items_leaves(c, t))

CallSort ==
    /\ pc = "idle"
    /\ \E c \in {List(l) : l \in ListsOf(SortElements)} \cup NonLists :
        /\ Call("sort_items_by_expiration", c, NoArg,
                sort_items_by_expiration(c))
        /\ Leaves(sort_items_by_expiration_leaves(c))

CallMatch ==
    /\ pc = "idle"
    /\ \E c \in {List(l) : l \in ListsOf(MatchItems)} \cup NonLists :
        \E r \in {List(l) : l \in ListsUpTo(MatchRecipients, MaxRecipients)}
                   \cup NonLists :
            /\ Call("match_donations", c, r, match_donations(c, r))
            /\ Leaves(match_donations_leaves(c, r))

CallFormat ==
    /\ pc = "idle"
    /\ \E x \in FormatInputs :
        /\ Call("format_food_item", x, NoArg, format_food_item(x))
        /\ Leaves(format_food_item_leaves(x))

\* the caller takes the outcome
Finish ==
    /\ pc = "done"
    /\ pc' = "idle"
    /\ op' = "none"
    /\ arg' = NoArg
    /\ arg2' = NoArg
    /\ ret' = NoReturn
    /\ after' = NoArg
    /\ after2' = NoArg
    /\ UNCHANGED <<today, first, between, inventory, shared_recipients, thread>>

\* midnight: date.today() is the next day from now on
Midnight ==
    /\ pc = "idle"
    /\ NextDay(today) \in Days
    /\ today' = NextDay(today)
    /\ UNCHANGED <<pc, op, arg, arg2, ret, after, after2, first, between,
                   inventory, shared_recipients, thread>>

Next ==
    \/ CallValidate
    \/ CallCalculate
    \/ CallIdentify
    \/ CallSort
    \/ CallMatch
    \/ CallFormat
    \/ Finish
    \/ Midnight

Spec == Init /\ [][Next]_vars

---------------------------------------------------------------------------
(* A caller that makes a call, keeps the outcome, and later makes the same *)
(* call again, other calls and midnight coming in between                  *)

\* list elements: records that expire today and tomorrow, one with an
\* unparsable date, and what is no dict
RepeatElements ==
    {Dated(PyStr(DayText(d0, k))) : d0 \in StartDays, k \in {0, 1}}
        \cup {Dated(PyStr("not a date")), NonDict(None)}

RepeatLists == {List(l) : l \in ListsUpTo(RepeatElements, RepeatLen)}

\* the calls of the five operations: <<name, first and second argument>>
RepeatCalls ==
    {<<"validate_food_item", x, NoArg>> :
        x \in {Dated(PyStr("2024-02-29")), Dated(Absent), NonDict(None)}}
    \cup {<<"format_food_item", x, NoArg>> :
        x \in {Dated(PyStr("2024-02-29")), Dated(Absent), NonDict(None)}}
    \cup {<<"identify_expiring_items", c, t>> :
        c \in RepeatLists, t \in {PyInt(7), None}}
    \cup {<<"sort_items_by_expiration", c, NoArg>> : c \in RepeatLists}
    \cup {<<"match_donations", c, r>> :
        c \in {List(l) : l \in ListsUpTo(MatchItems, RepeatLen)},
        r \in {List(l) : l \in ListsUpTo(MatchRecipients, 1)}}

\* the calls made between the two
BetweenCalls ==
    {<<"validate_food_item", Dated(PyStr("2024-02-29")), NoArg>>,
     <<"identify_expiring_items",
       List(<<Dated(PyStr("not a date")), Dated(PyStr("2024-02-29"))>>),
       PyInt(7)>>,
     <<"sort_items_by_expiration",
       List(<<Dated(PyStr("not a date")), Dated(PyStr("2024-02-29"))>>),
       NoArg>>,
     <<"match_donations", List(<<Dated(PyStr("2024-02-29"))>>),
       List(<<Recipient("R001", Accepts(<<"Produce", "Canned">>))>>)>>,
     <<"format_food_item", Dated(PyStr("2024-02-29")), NoArg>>}

\* the call name(a, b), made now
Apply(name, a, b) ==
    CASE name = "validate_food_item" -> validate_food_item(a)
      [] name = "identify_expiring_items" -> identify_expiring_items(a, b)
      [] name = "sort_items_by_expiration" -> sort_items_by_expiration(a)
      [] name = "match_donations" -> match_donations(a, b)
      [] name = "format_food_item" -> format_food_item(a)

RepeatCall ==
    /\ pc = "idle"
    /\ \E c \in RepeatCalls :
        /\ Call(c[1], c[2], c[3], Apply(c[1], c[2], c[3]))
        /\ Leaves(<<c[2], c[3]>>)

\* the caller keeps the arguments and the outcome
Keep ==
    /\ pc = "done"
    /\ pc' = "kept"
    /\ first' = [outcome |-> ret, day |-> today]
    /\ UNCHANGED <<today, op, arg, arg2, ret, after, after2, between,
                   inventory, shared_recipients, thread>>

\* another call in between: it writes nothing that outlasts it, and the
\* caller drops its outcome
CallBetween ==
    /\ pc = "kept"
    /\ between < MaxBetween
    /\ \E c \in BetweenCalls :
        /\ Apply(c[1], c[2], c[3]).exc = ""
        /\ between' = between + 1
    /\ UNCHANGED <<today, pc, op, arg, arg2, ret, after, after2, first,
                   inventory, shared_recipients, thread>>

RepeatMidnight ==
    /\ pc \in {"idle", "kept"}
    /\ NextDay(today) \in Days
    /\ today' = NextDay(today)
    /\ UNCHANGED <<pc, op, arg, arg2, ret, after, after2, first, between,
                   inventory, shared_recipients, thread>>

\* the same call again
CallAgain ==
    /\ pc = "kept"
    /\ pc' = "again"
    /\ ret' = Apply(op, arg, arg2)
    /\ UNCHANGED <<today, op, arg, arg2, after, after2, first, between,
                   inventory, shared_recipients, thread>>

RepeatFinish ==
    /\ pc \in {"done", "again"}
    /\ pc' = "idle"
    /\ op' = "none"
    /\ arg' = NoArg
    /\ arg2' = NoArg
    /\ ret' = NoReturn
    /\ after' = NoArg
    /\ after2' = NoArg
    /\ first' = NoFirst
    /\ between' = 0
    /\ UNCHANGED <<today, inventory, shared_recipients, thread>>

RepeatNext ==
    \/ RepeatCall
    \/ Keep
    \/ CallBetween
    \/ RepeatMidnight
    \/ CallAgain
    \/ RepeatFinish

SpecRepeat == Init /\ [][RepeatNext]_vars

---------------------------------------------------------------------------
(* Properties *)

Called(name) == pc = "done" /\ op = name

\* the seven required fields in their canonical order
CanonicalFields ==
    <<"id", "name", "category", "quantity", "unit", "expiration_date",
      "storage_location">>

\* the first field, in canonical order, that the dict d lacks
FirstMissing(d) ==
    CanonicalFields[CHOOSE i \in 1..Len(CanonicalFields) :
                        /\ ~Has(d, CanonicalFields[i])
                        /\ \A j \in 1..(i - 1) : Has(d, CanonicalFields[j])]

HasAllFields(d) == \A x \in Fields : Has(d, x)

\* C1: a dict that lacks a required field is invalid, and the message names
\* the first field it lacks in canonical order, whatever the fields that
\* are there hold.
C1_FirstMissingFieldReported ==
    (Called("validate_food_item") /\ arg.isdict /\ ~HasAllFields(arg))
        => ret = Return(Result(FALSE, "Missing required field: "
                                          \o FirstMissing(arg)))

\* C1 witness: a dict lacking category and unit and holding an id that is
\* not a str has been reported for category.
C1_Witness ==
    /\ Called("validate_food_item")
    /\ arg.isdict
    /\ ~Has(arg, "category") /\ ~Has(arg, "unit") /\ Has(arg, "quantity")
    /\ arg.f["id"] = PyInt(1)
    /\ ret.val.message = "Missing required field: category"

EnumeratedCategories ==
    {"Produce", "Dairy", "Bakery", "Meat", "Frozen", "Canned", "Dry Goods",
     "Prepared"}

\* a number that is >= 0: an int, a bool or a float that is not below zero
\* (NaN is >= nothing)
NonNegativeNumber(v) ==
    v.k \in {"int", "bool", "float"} /\ ~IsNaN(v) /\ v.n >= 0

\* C2: a record with all seven fields, a str id and name and a quantity
\* >= 0 is valid, with the message of success, when its category is one of
\* the eight enumerated strings, and invalid when it is any other str.
C2_CategoryDecides ==
    (/\ Called("validate_food_item") /\ arg.isdict /\ HasAllFields(arg)
     /\ IsStr(arg.f["id"]) /\ IsStr(arg.f["name"])
     /\ NonNegativeNumber(arg.f["quantity"])
     /\ IsStr(arg.f["category"]))
        => IF arg.f["category"].s \in EnumeratedCategories
           THEN ret = Return(Result(TRUE, "Food item data is valid"))
           ELSE ret.exc = "" /\ ret.val.is_valid = FALSE

\* C2 witness: a record of category Dry Goods has been found valid.
C2_Witness ==
    /\ Called("validate_food_item")
    /\ arg.isdict /\ HasAllFields(arg)
    /\ arg.f["category"] = PyStr("Dry Goods")
    /\ ret.val.is_valid = TRUE

\* a record that is valid but, perhaps, for its quantity
ValidBesidesQuantity(d) ==
    /\ d.isdict /\ HasAllFields(d)
    /\ IsStr(d.f["id"]) /\ IsStr(d.f["name"])
    /\ IsStr(d.f["category"]) /\ d.f["category"].s \in EnumeratedCategories

\* C3: in an otherwise valid record a quantity of 0 is accepted, and a
\* quantity below zero or one that is no number (a str, None) is rejected
\* with "Quantity must be a positive number".  A bool is an int in Python
\* and so a number.
C3_QuantityNonNegative ==
    (Called("validate_food_item") /\ ValidBesidesQuantity(arg))
        => LET q == arg.f["quantity"]
           IN  /\ q = PyInt(0) => (ret.exc = "" /\ ret.val.is_valid = TRUE)
               /\ (q.k \notin {"int", "bool", "float"} \/ (~IsNaN(q) /\ q.n < 0))
                    => ret = Return(Result(FALSE,
                                   "Quantity must be a positive number"))

\* C3 witness: an otherwise valid record with quantity 0 has been accepted.
C3_Witness ==
    /\ Called("validate_food_item") /\ ValidBesidesQuantity(arg)
    /\ arg.f["quantity"] = PyInt(0)
    /\ ret.val.is_valid = TRUE

\* C4: an argument that is None or not a dict gets exactly
\* {is_valid: False, message: "Food item must be a dictionary"}.
C4_NonMappingRejected ==
    (Called("validate_food_item") /\ ~arg.isdict)
        => ret = Return(Result(FALSE, "Food item must be a dictionary"))

\* C4 witness: a str has been validated.
C4_Witness ==
    /\ Called("validate_food_item")
    /\ ~arg.isdict /\ arg.v = PyStr("not a dict")
    /\ ret.val.message = "Food item must be a dictionary"

\* C5: for the date k days from today, written as YYYY-MM-DD, the result is
\* k: 0 for today, positive for the future, negative for the past.
C5_SignedDayCount ==
    Called("calculate_days_until_expiration")
        => \A k \in Offsets :
               arg = PyStr(DayText(today, k)) => ret = Return(k)

\* C5 witness: five days ahead, across 29 February, has been counted.
C5_Witness ==
    /\ Called("calculate_days_until_expiration")
    /\ today = Date(2024, 2, 27)
    /\ arg = PyStr("2024-03-03")
    /\ ret = Return(5)

\* C6: None and every text that is no YYYY-MM-DD date (wrong separator or
\* field order, month or day out of range, letters, the empty string) give
\* -1.
C6_SentinelForUnparsable ==
    (/\ Called("calculate_days_until_expiration")
     /\ (arg = None \/ arg \in {PyStr(Text(cs)) : cs \in GarbageChars}))
        => ret = Return(0 - 1)

\* C6 witness: 30 February has been given the sentinel.
C6_Witness ==
    /\ Called("calculate_days_until_expiration")
    /\ arg = PyStr("2023-02-30")
    /\ ret = Return(0 - 1)

\* whether the filter is to keep element e under threshold t: a dict with an
\* expiration date whose days-to-expire d has 0 <= d <= t
ExpiresWithin(e, t) ==
    /\ e.isdict /\ Has(e, "expiration_date")
    /\ LET d == calculate_days_until_expiration(e.f["expiration_date"])
       IN  d.exc = "" /\ 0 <= d.val /\ d.val <= t

\* C7: for every list and int threshold t the filter returns exactly the
\* subsequence of the elements that are dicts with an expiration date and
\* 0 <= d <= t, in input order.
C7_ExactSubsequence ==
    (Called("identify_expiring_items") /\ IsList(arg) /\ IsInt(arg2))
        => ret = Return(SelectSeq(arg.l, LAMBDA e : ExpiresWithin(e, arg2.n)))

\* C8: with a threshold that is None or no int the filter gives what it
\* gives for the same list with threshold 7.
C8_ThresholdDefaultsToSeven ==
    (/\ Called("identify_expiring_items") /\ IsList(arg)
     /\ (arg2 = None \/ arg2.k \notin {"int", "bool"}))
        => ret = identify_expiring_items(arg, PyInt(7))

\* C8 witness: with a str for threshold, of two records expiring in 7 and
\* in 8 days the first alone has been returned.
C8_Witness ==
    /\ Called("identify_expiring_items")
    /\ arg2 = PyStr("not a number")
    /\ arg = List(<<Dated(PyStr(DayText(today, 7))),
                    Dated(PyStr(DayText(today, 8)))>>)
    /\ ret = Return(<<Dated(PyStr(DayText(today, 7)))>>)

\* C9: filter, sort and matcher return the empty list when a collection
\* argument is None or no list, and when the list of items (for the
\* matcher also the list of recipients) is empty.
C9_EmptyForNoCollection ==
    (/\ pc = "done"
     /\ op \in {"identify_expiring_items", "sort_items_by_expiration",
                "match_donations"}
     /\ \/ ~IsList(arg) \/ arg.l = <<>>
        \/ op = "match_donations" /\ (~IsList(arg2) \/ arg2.l = <<>>))
        => ret = Return(<<>>)

\* C9 witness: the matcher has been given items and None for recipients.
C9_Witness ==
    /\ Called("match_donations")
    /\ IsList(arg) /\ arg.l # <<>>
    /\ arg2 = NotAList("none")
    /\ ret = Return(<<>>)

\* an element whose expiration date is malformed: text that is no date, or
\* no text at all (None, a number)
MalformedDate(e) ==
    /\ e.isdict /\ Has(e, "expiration_date")
    /\ \/ ~IsStr(e.f["expiration_date"])
       \/ e.f["expiration_date"] \in {PyStr(Text(cs)) : cs \in GarbageChars}

\* C10: for every list the filter does not raise, and the elements with a
\* malformed expiration date are left out, the others being filtered as if
\* the malformed ones were not in the list.
C10_MalformedElementsSkipped ==
    (Called("identify_expiring_items") /\ IsList(arg))
        => /\ ret.exc = ""
           /\ ret.val =
                identify_expiring_items(
                    List(SelectSeq(arg.l, LAMBDA e : ~MalformedDate(e))),
                    arg2).val

---------------------------------------------------------------------------
(* sort_items_by_expiration: order, stability, the sentinel *)

\* every element is a record whose expiration_date is a str
TextualDates(l) ==
    \A i \in 1..Len(l) :
        /\ l[i].isdict
        /\ Has(l[i], "expiration_date")
        /\ IsStr(l[i].f["expiration_date"])

\* how many times x occurs in s
Count(s, x) == Cardinality({i \in 1..Len(s) : s[i] = x})

\* a <= b in lexicographic order: equal, or a a proper prefix of b, or the
\* first character that differs smaller in a
LexLeq(a, b) ==
    \/ a = b
    \/ \E i \in 1..Len(b) :
          /\ i <= Len(a) + 1
          /\ \A n \in 1..(i - 1) : a[n] = b[n]
          /\ i <= Len(a) => Ord(a[i]) < Ord(b[i])

DateChars(x) == CharsOf[x.f["expiration_date"].s]

\* C11: for a list of records whose expiration_date values are text,
\* sort_items_by_expiration returns a list of the same length in which every
\* element occurs as often as in the input, the expiration_date strings in
\* non-decreasing lexicographic order
C11_SortedPermutation ==
    (Called("sort_items_by_expiration") /\ IsList(arg)
        /\ TextualDates(arg.l)) =>
        /\ ret.exc = ""
        /\ Len(ret.val) = Len(arg.l)
        /\ \A i \in 1..Len(arg.l) :
              Count(ret.val, arg.l[i]) = Count(arg.l, arg.l[i])
        /\ \A i \in 1..(Len(ret.val) - 1) :
              LexLeq(DateChars(ret.val[i]), DateChars(ret.val[i + 1]))

\* three records with textual dates, of which two are the same record, that
\* were not in order
C11_Witness ==
    /\ Called("sort_items_by_expiration")
    /\ IsList(arg)
    /\ TextualDates(arg.l)
    /\ Len(arg.l) = 3
    /\ arg.l[1] = arg.l[3]
    /\ ret.exc = ""
    /\ ret.val # arg.l

\* the elements of s whose sort key is k, in their order in s
WithKey(s, k) == SelectSeq(s, LAMBDA x : SortKey(x) = k)

\* C12: the sort is stable: the elements of the input that have one and the
\* same sort key (the same expiration_date, or the sentinel for each) are in
\* the output in the order they had in the input
C12_Stable ==
    (Called("sort_items_by_expiration") /\ IsList(arg) /\ ret.exc = "") =>
        \A i \in 1..Len(arg.l) :
            WithKey(ret.val, SortKey(arg.l[i]))
                = WithKey(arg.l, SortKey(arg.l[i]))

\* two different records with one date after a record with a later date,
\* and two different elements that both get the sentinel
C12_Witness ==
    /\ Called("sort_items_by_expiration")
    /\ IsList(arg)
    /\ ret.exc = ""
    /\ Len(arg.l) = 3
    /\ arg.l[2] # arg.l[3]
    /\ SortKey(arg.l[2]) = SortKey(arg.l[3])
    /\ ret.val = <<arg.l[2], arg.l[3], arg.l[1]>>

\* an element the sort has no expiration_date for
Dateless(x) == ~x.isdict \/ ~Has(x, "expiration_date")

\* C13 as stated: in the list the sort returns, every element that is no
\* dict or has no expiration_date comes after every record that has an
\* expiration_date
C13_DatelessAfterEveryDated ==
    (Called("sort_items_by_expiration") /\ IsList(arg) /\ ret.exc = "") =>
        \A i, j \in 1..Len(ret.val) :
            (Dateless(ret.val[i]) /\ ~Dateless(ret.val[j])) => j < i

\* a str that is less than "9999-12-31" in lexicographic order
BeforeMaximum(v) ==
    /\ IsStr(v)
    /\ v.s # "9999-12-31"
    /\ LexLeq(CharsOf[v.s], CharsOf["9999-12-31"])

\* C13 as amended: in the list the sort returns, every element that is no
\* dict or has no expiration_date comes after every record whose
\* expiration_date is a str less than "9999-12-31" in lexicographic order
C13_DatelessAfterEarlierText ==
    (Called("sort_items_by_expiration") /\ IsList(arg) /\ ret.exc = "") =>
        \A i, j \in 1..Len(ret.val) :
            (/\ Dateless(ret.val[i])
             /\ ~Dateless(ret.val[j])
             /\ BeforeMaximum(ret.val[j].f["expiration_date"])) => j < i

\* a non-dict and a record without a date listed before a dated record
C13_Witness ==
    /\ Called("sort_items_by_expiration")
    /\ IsList(arg)
    /\ ret.exc = ""
    /\ Len(arg.l) = 3
    /\ ~arg.l[1].isdict
    /\ arg.l[2].isdict /\ ~Has(arg.l[2], "expiration_date")
    /\ ~Dateless(arg.l[3])
    /\ BeforeMaximum(arg.l[3].f["expiration_date"])
    /\ ret.val = <<arg.l[3], arg.l[1], arg.l[2]>>

---------------------------------------------------------------------------
(* match_donations: first fit, safety, one item at a time *)

HasCategory(item) == item.isdict /\ Has(item, "category")

\* recipient r is a dict whose accepts_categories is a list that holds the
\* item's category
Eligible(item, r) ==
    /\ r.isdict
    /\ r.acc.k = "list"
    /\ \E n \in 1..Len(r.acc.l) : PyStr(r.acc.l[n]) = item.f["category"]

HasEligible(item, rs) ==
    HasCategory(item) /\ \E j \in 1..Len(rs) : Eligible(item, rs[j])

\* the earliest-listed eligible recipient of an item that has one
FirstEligible(item, rs) ==
    rs[CHOOSE j \in 1..Len(rs) :
          /\ Eligible(item, rs[j])
          /\ \A n \in 1..(j - 1) : ~Eligible(item, rs[n])]

\* one entry for each item that has an eligible recipient, in item order
RECURSIVE FirstFit(_, _)
FirstFit(items, rs) ==
    IF items = <<>> THEN <<>>
    ELSE IF HasEligible(Head(items), rs)
    THEN <<Match(Head(items), FirstEligible(Head(items), rs))>>
             \o FirstFit(Tail(items), rs)
    ELSE FirstFit(Tail(items), rs)

\* C14: for every list of items and list of recipients match_donations
\* returns, in item order, one entry for each item that is a dict with a
\* category and has an eligible recipient, the recipient being the
\* earliest-listed dict whose accepts_categories is a collection that holds
\* the category
C14_GreedyFirstFit ==
    (Called("match_donations") /\ IsList(arg) /\ IsList(arg2)) =>
        ret = Return(FirstFit(arg.l, arg2.l))

\* C15: in every list match_donations returns, the item of each entry has a
\* category, its recipient has accepts_categories and accepts that
\* category, an item has no more entries than occurrences in the input, the
\* entries are no more than the items, and an item without an eligible
\* recipient has no entry
C15_MatchSafety ==
    (Called("match_donations") /\ IsList(arg) /\ IsList(arg2)
        /\ ret.exc = "") =>
        /\ \A n \in 1..Len(ret.val) :
              /\ HasCategory(ret.val[n].item)
              /\ ret.val[n].recipient.isdict
              /\ ret.val[n].recipient.acc.k # "absent"
              /\ Eligible(ret.val[n].item, ret.val[n].recipient)
        /\ \A i \in 1..Len(arg.l) :
              Cardinality({n \in 1..Len(ret.val) :
                              ret.val[n].item = arg.l[i]})
                  <= Count(arg.l, arg.l[i])
        /\ Len(ret.val) <= Len(arg.l)
        /\ \A i \in 1..Len(arg.l) :
              ~HasEligible(arg.l[i], arg2.l) =>
                  \A n \in 1..Len(ret.val) : ret.val[n].item # arg.l[i]

\* an item without a category, an item no recipient accepts and an item
\* with an entry, before a recipient without accepts_categories
C15_Witness ==
    /\ Called("match_donations")
    /\ IsList(arg) /\ IsList(arg2)
    /\ ret.exc = ""
    /\ Len(arg.l) = 3
    /\ arg.l[1].isdict /\ ~Has(arg.l[1], "category")
    /\ HasCategory(arg.l[2]) /\ ~HasEligible(arg.l[2], arg2.l)
    /\ Len(arg2.l) = 2
    /\ arg2.l[1].isdict /\ arg2.l[1].acc.k = "absent"
    /\ ret.val = <<Match(arg.l[3], arg2.l[2])>>

\* the outcome of a ++ b for two outcomes
Concat(a, b) ==
    IF a.exc # "" THEN a
    ELSE IF b.exc # "" THEN b
    ELSE Return(a.val \o b.val)

\* C16: match_donations(A ++ B, R) = match_donations(A, R) ++
\* match_donations(B, R) for every way of cutting the item list in A and B
C16_MatchDistributes ==
    (Called("match_donations") /\ IsList(arg) /\ IsList(arg2)) =>
        \A n \in 0..Len(arg.l) :
            ret = Concat(
                    match_donations(List(SubSeq(arg.l, 1, n)), arg2),
                    match_donations(
                        List(SubSeq(arg.l, n + 1, Len(arg.l))), arg2))

\* one recipient in the entries of three items
C16_Witness ==
    /\ Called("match_donations")
    /\ IsList(arg) /\ IsList(arg2)
    /\ ret.exc = ""
    /\ Len(arg.l) = 3
    /\ Len(ret.val) = 3
    /\ arg.l[1] # arg.l[2]
    /\ \A n \in 1..3 : ret.val[n].recipient = arg2.l[1]

---------------------------------------------------------------------------
(* format_food_item: the line and the sentinel *)

\* the six fields of the line
SixFields == {"id", "name", "quantity", "unit", "category", "expiration_date"}

HasSixFields(x) == x.isdict /\ \A k \in SixFields : Has(x, k)

\* a value as it reads in the line: a str as it is, the other values as
\* Python writes them
Shown(v) ==
    IF IsStr(v) THEN v.s
    ELSE CASE v = PyInt(0 - 1) -> "-1"
           [] v = PyInt(0) -> "0"
           [] v = PyInt(1) -> "1"
           [] v = PyInt(3) -> "3"
           [] v = PyInt(25) -> "25"
           [] v = PyFloat(0 - 5) -> "-0.5"
           [] v = NaN -> "nan"
           [] v = PyBool(TRUE) -> "True"
           [] v = None -> "None"

\* C17: for a dict that has id, name, quantity, unit, category and
\* expiration_date, format_food_item returns exactly
\* "<id> | <name> | <quantity> <unit> | <category> | Expires: <expiration_date>",
\* with or without storage_location, valid or not
C17_FormatLine ==
    (Called("format_food_item") /\ HasSixFields(arg)) =>
        ret = Return(PyStr(
                Shown(arg.f["id"]) \o " | " \o Shown(arg.f["name"])
                    \o " | " \o Shown(arg.f["quantity"]) \o " "
                    \o Shown(arg.f["unit"]) \o " | "
                    \o Shown(arg.f["category"]) \o " | Expires: "
                    \o Shown(arg.f["expiration_date"])))

\* a record without storage_location that validation rejects for its
\* quantity and category, with its line
C17_Witness ==
    /\ Called("format_food_item")
    /\ HasSixFields(arg)
    /\ ~Has(arg, "storage_location")
    /\ arg.f["quantity"] = PyFloat(0 - 5)
    /\ ret = Return(PyStr("F001 | Apples | -0.5 kg | Snacks | Expires: not a date"))

\* C18: for None, for what is no dict and for a dict without one of the six
\* fields, format_food_item returns "Invalid food item format" and does not
\* raise
C18_FormatSentinel ==
    (Called("format_food_item") /\ ~HasSixFields(arg)) =>
        ret = Return(PyStr("Invalid food item format"))

C18_Witness ==
    /\ Called("format_food_item")
    /\ arg.isdict
    /\ \A k \in Fields : Has(arg, k) <=> k # "unit"
    /\ ret = Return(PyStr("Invalid food item format"))

---------------------------------------------------------------------------
(* The frame: inputs are read only *)

---------------------------------------------------------------------------
(* calculate_days_until_expiration: no exception *)

\* a str that datetime.strptime(..., "%Y-%m-%d") parses
ValidDateString(v) == IsStr(v) /\ Strptime(CharsOf[v.s]).ok

\* C20: calculate_days_until_expiration raises for no input, whatever its
\* shape (None, str, number, list, dict): it returns an integer, and -1 for
\* what is no valid date string
C20_CalculateNeverRaises ==
    Called("calculate_days_until_expiration") =>
        /\ ret.exc = ""
        /\ ret.val \in Int
        /\ ~ValidDateString(arg) => ret.val = 0 - 1

---------------------------------------------------------------------------
(* calculate_days_until_expiration: -1 has two meanings *)

\* None, or a str that strptime rejects
InvalidDateInput(v) ==
    v = None \/ (IsStr(v) /\ ~Strptime(CharsOf[v.s]).ok)

\* C23: for None and for an unparsable str calculate_days_until_expiration
\* returns what it returns for the valid date one day before today, -1;
\* for every other valid date it returns another integer
C23_SentinelCollision ==
    Called("calculate_days_until_expiration") =>
        /\ InvalidDateInput(arg) => ret = Return(0 - 1)
        /\ ValidDateString(arg) =>
              /\ ret.exc = ""
              /\ (ret.val = 0 - 1)
                    <=> (Strptime(CharsOf[arg.s]).date = PrevDay(today))

\* the date of yesterday, with the result of an invalid input
C23_Witness ==
    /\ Called("calculate_days_until_expiration")
    /\ ValidDateString(arg)
    /\ Strptime(CharsOf[arg.s]).date = PrevDay(today)
    /\ ret = calculate_days_until_expiration(None)
    /\ ret = calculate_days_until_expiration(PyStr("not a date"))

---------------------------------------------------------------------------
(* validate_food_item: the order of the checks, and validity *)

\* the checks of the claim in their order: whether the record fails the
\* check, and the message then
Checks(x) ==
    <<[fails |-> ~x.isdict, message |-> "Food item must be a dictionary"],
      [fails |-> ~HasAllFields(x),
       message |-> IF HasAllFields(x) THEN ""
                   ELSE "Missing required field: " \o FirstMissing(x)],
      [fails |-> ~IsStr(x.f["id"]), message |-> "ID must be a string"],
      [fails |-> ~IsStr(x.f["name"]), message |-> "Name must be a string"],
      [fails |-> ~NonNegativeNumber(x.f["quantity"]),
       message |-> "Quantity must be a positive number"],
      [fails |-> ~IsStr(x.f["category"]),
       message |-> "Category must be a string"],
      [fails |-> ~(x.f["category"].s \in EnumeratedCategories),
       message |-> "Invalid category. Must be one of: Produce, Dairy, "
                       \o "Bakery, Meat, Frozen, Canned, Dry Goods, Prepared"]>>

\* C24: a record that fails one or more checks gets the message of the
\* earliest check it fails, the checks being: dict, the seven fields, id a
\* str, name a str, quantity a number not below 0, category a str, category
\* one of the eight
C24_FirstFailureReported ==
    Called("validate_food_item") =>
        \A i \in 1..Len(Checks(arg)) :
            (/\ Checks(arg)[i].fails
             /\ \A j \in 1..(i - 1) : ~Checks(arg)[j].fails)
                => ret = Return(Result(FALSE, Checks(arg)[i].message))

\* C25: validate_food_item finds valid exactly the dicts that have the
\* seven fields, a str id and name, a quantity that is a number >= 0 and a
\* category that is one of the eight; unit, expiration_date and
\* storage_location have no part in it
C25_ValidIff ==
    Called("validate_food_item") =>
        /\ ret.exc = ""
        /\ ret.val.is_valid <=>
              (/\ arg.isdict /\ HasAllFields(arg)
               /\ IsStr(arg.f["id"]) /\ IsStr(arg.f["name"])
               /\ NonNegativeNumber(arg.f["quantity"])
               /\ IsStr(arg.f["category"])
               /\ arg.f["category"].s \in EnumeratedCategories)

---------------------------------------------------------------------------
(* sort_items_by_expiration: the order of the strings and the order of the *)
(* days                                                                    *)

\* every element is a record whose expiration_date the date arithmetic
\* accepts
ValidDates(l) ==
    \A i \in 1..Len(l) :
        /\ l[i].isdict
        /\ Has(l[i], "expiration_date")
        /\ ValidDateString(l[i].f["expiration_date"])

DaysToExpire(x) ==
    calculate_days_until_expiration(x.f["expiration_date"]).val

Chronological(l) ==
    \A i, j \in 1..Len(l) : i < j => DaysToExpire(l[i]) <= DaysToExpire(l[j])

\* C26 as stated: for records whose expiration_date values are valid dates
\* the sort gives the chronological order: a record that precedes another
\* in the output has no more days to expire
C26_ChronologicalForValidDates ==
    (Called("sort_items_by_expiration") /\ IsList(arg) /\ ValidDates(arg.l))
        => (ret.exc = "" /\ Chronological(ret.val))

\* a valid date written YYYY-MM-DD with four, two and two digits
ZeroPadded(v) ==
    /\ ValidDateString(v)
    /\ Len(CharsOf[v.s]) = 10
    /\ \A n \in (1..10) \ {5, 8} : IsDigit(CharsOf[v.s][n])

\* C26 as amended: for records whose expiration_date values are valid
\* dates written with zero-padded month and day the sort gives the
\* chronological order
C26_ChronologicalForPaddedDates ==
    (/\ Called("sort_items_by_expiration") /\ IsList(arg)
     /\ ValidDates(arg.l)
     /\ \A i \in 1..Len(arg.l) : ZeroPadded(arg.l[i].f["expiration_date"]))
        => (ret.exc = "" /\ Chronological(ret.val))

\* three records with padded dates of three days, the latest first
C26_Witness ==
    /\ Called("sort_items_by_expiration")
    /\ IsList(arg)
    /\ Len(arg.l) = 3
    /\ ValidDates(arg.l)
    /\ \A i \in 1..3 : ZeroPadded(arg.l[i].f["expiration_date"])
    /\ DaysToExpire(arg.l[1]) > DaysToExpire(arg.l[2])
    /\ DaysToExpire(arg.l[2]) > DaysToExpire(arg.l[3])
    /\ ret = Return(<<arg.l[3], arg.l[2], arg.l[1]>>)

\* C27: for list arguments sort_items_by_expiration and match_donations
\* raise nothing, whatever the elements: they return a list
C27_SortAndMatchNeverRaise ==
    ((Called("sort_items_by_expiration") /\ IsList(arg))
        \/ (Called("match_donations") /\ IsList(arg) /\ IsList(arg2)))
        => ret.exc = ""

---------------------------------------------------------------------------
(* identify_expiring_items and sort_items_by_expiration together *)

\* every element is no dict, or has no expiration_date, or a str for it
TextOrAbsentDates(l) ==
    \A i \in 1..Len(l) :
        Dateless(l[i]) \/ IsStr(l[i].f["expiration_date"])

\* the list an outcome returned, handed on as an argument
AsList(outcome) == List(outcome.val)

\* C28: for a list whose expiration_date values are str or absent and every
\* threshold, filtering the sorted list gives what sorting the filtered list
\* gives, on one day
C28_FilterSortCommute ==
    (Called("identify_expiring_items") /\ IsList(arg)
        /\ TextOrAbsentDates(arg.l)) =>
        /\ ret.exc = ""
        /\ sort_items_by_expiration(arg).exc = ""
        /\ identify_expiring_items(AsList(sort_items_by_expiration(arg)), arg2)
              = sort_items_by_expiration(AsList(ret))

\* a list of which the filter keeps two records that the sort exchanges and
\* drops one that the sort puts first
C28_Witness ==
    /\ Called("identify_expiring_items")
    /\ IsList(arg)
    /\ TextOrAbsentDates(arg.l)
    /\ Len(arg.l) = 3
    /\ ret = Return(<<arg.l[1], arg.l[3]>>)
    /\ sort_items_by_expiration(arg)
          = Return(<<arg.l[2], arg.l[3], arg.l[1]>>)
    /\ sort_items_by_expiration(AsList(ret)) = Return(<<arg.l[3], arg.l[1]>>)

---------------------------------------------------------------------------
(* identify_expiring_items: the threshold *)

\* a is b with some elements left out
RECURSIVE IsSubsequence(_, _)
IsSubsequence(a, b) ==
    IF a = <<>> THEN TRUE
    ELSE IF b = <<>> THEN FALSE
    ELSE IF Head(a) = Head(b) THEN IsSubsequence(Tail(a), Tail(b))
    ELSE IsSubsequence(a, Tail(b))

\* a record whose date is a valid date of today or later
NotYetExpired(e) ==
    /\ e.isdict /\ Has(e, "expiration_date")
    /\ ValidDateString(e.f["expiration_date"])
    /\ ToOrdinal(Strptime(CharsOf[e.f["expiration_date"].s]).date)
          >= ToOrdinal(today)

\* C29: for every list and int thresholds t1 <= t2 the result for t1 is a
\* subsequence of the result for t2; for a threshold below 0 the result is
\* empty; whatever the threshold, no record that has expired and no record
\* with an unparsable date is in the result
C29_ThresholdMonotone ==
    (Called("identify_expiring_items") /\ IsList(arg) /\ IsInt(arg2)) =>
        /\ ret.exc = ""
        /\ \A t1 \in (0 - 2)..arg2.n :
              /\ identify_expiring_items(arg, PyInt(t1)).exc = ""
              /\ IsSubsequence(identify_expiring_items(arg, PyInt(t1)).val,
                               ret.val)
        /\ arg2.n < 0 => ret.val = <<>>
        /\ \A n \in 1..Len(ret.val) : NotYetExpired(ret.val[n])

---------------------------------------------------------------------------
(* validate_food_item and format_food_item *)

\* the display line of a record that has the six fields
ShownLine(x) ==
    Shown(x.f["id"]) \o " | " \o Shown(x.f["name"]) \o " | "
        \o Shown(x.f["quantity"]) \o " " \o Shown(x.f["unit"]) \o " | "
        \o Shown(x.f["category"]) \o " | Expires: "
        \o Shown(x.f["expiration_date"])

\* C30: a record that validate_food_item finds valid is formatted by
\* format_food_item as its full display line, never as
\* "Invalid food item format"
C30_ValidIsFormatted ==
    (Called("validate_food_item") /\ ret.exc = "" /\ ret.val.is_valid) =>
        /\ format_food_item(arg) # Return(PyStr("Invalid food item format"))
        /\ format_food_item(arg) = Return(PyStr(ShownLine(arg)))

\* a record found valid, with its line
C30_Witness ==
    /\ Called("validate_food_item")
    /\ ret = Return(Result(TRUE, "Food item data is valid"))
    /\ format_food_item(arg)
          = Return(PyStr("F001 | Apples | 25 kg | Dry Goods | Expires: 2024-02-29"))

---------------------------------------------------------------------------
(* Callers in threads: each call runs in its own frame, a step at a time,  *)
(* on the inventory and the recipients the threads share; no caller        *)
(* changes the two lists, and the day does not change                      *)

ThreadItems ==
    {Item(PyStr("F001"), Absent, PyStr("Produce"), Absent, Absent,
          PyStr(DayText(Date(2024, 2, 27), 8)), Absent),
     Item(PyStr("F002"), Absent, PyStr("Dairy"), Absent, Absent,
          PyStr(DayText(Date(2024, 2, 27), 0)), Absent),
     Item(PyStr("F003"), Absent, Absent, Absent, Absent, Absent, Absent)}

ThreadRecipients ==
    {Recipient("R001", Accepts(<<"Produce", "Canned">>)),
     Recipient("R002", Accepts(<<"Dairy", "Produce">>)),
     Recipient("R005", AcceptsOther("none"))}

ThreadInit ==
    /\ today \in StartDays
    /\ pc = "idle"
    /\ op = "none"
    /\ arg = NoArg
    /\ arg2 = NoArg
    /\ ret = NoReturn
    /\ after = NoArg
    /\ after2 = NoArg
    /\ first = NoFirst
    /\ between = 0
    /\ inventory \in ListsUpTo(ThreadItems, ThreadLen)
    /\ shared_recipients \in ListsUpTo(ThreadRecipients, 1)
    /\ thread = [t \in Threads |-> Ready]

\* a plausible slip: the list a call builds kept at module level, one list
\* for all callers
Frame_Shared(t) == 1

\* the frame that holds the local list (expiring_items, sorted_items,
\* matches) of the call thread t is in: its own
Frame(t) == t

\* what the steps of the threads leave alone
ThreadFrame ==
    UNCHANGED <<today, pc, op, arg, arg2, ret, after, after2, first, between,
                inventory, shared_recipients>>

\* thread t enters a function: its parameters are bound, its local list is
\* new and empty
ThreadCall(t) ==
    /\ thread[t].pc = "ready"
    /\ \E name \in {"identify_expiring_items", "sort_items_by_expiration",
                     "match_donations"} :
        \E d \in IF name = "identify_expiring_items"
                  THEN {PyInt(0), PyInt(7)} ELSE {None} :
            thread' = [thread EXCEPT
                         ![t] = [Ready EXCEPT !.pc = "loop", !.op = name,
                                              !.days_threshold = d],
                         ![Frame(t)].acc = <<>>]
    /\ ThreadFrame

\* one turn of the loop of identify_expiring_items
ThreadIdentifyStep(t) ==
    /\ thread[t].pc = "loop"
    /\ thread[t].op = "identify_expiring_items"
    /\ thread[t].i <= Len(inventory)
    /\ LET item == inventory[thread[t].i]
           days == calculate_days_until_expiration(item.f["expiration_date"])
       IN  IF ~item.isdict \/ ~Has(item, "expiration_date")
           THEN thread' = [thread EXCEPT ![t].i = @ + 1]
           ELSE IF days.exc # ""
           THEN thread' = [thread EXCEPT
                             ![t].pc = "returned",
                             ![t].result = Raise(days.exc, <<>>)]
           ELSE IF 0 <= days.val /\ days.val <= thread[t].days_threshold.n
           THEN thread' = [thread EXCEPT
                             ![Frame(t)].acc = Append(@, item),
                             ![t].i = @ + 1]
           ELSE thread' = [thread EXCEPT ![t].i = @ + 1]
    /\ ThreadFrame

\* one turn of the inner loop of match_donations, or the end of it
ThreadMatchStep(t) ==
    /\ thread[t].pc = "loop"
    /\ thread[t].op = "match_donations"
    /\ thread[t].i <= Len(inventory)
    /\ LET item == inventory[thread[t].i]
           j == thread[t].j
       IN  IF ~item.isdict \/ ~Has(item, "category")
                \/ j > Len(shared_recipients)
           THEN thread' = [thread EXCEPT ![t].i = @ + 1, ![t].j = 1]
           ELSE LET recipient == shared_recipients[j]
                IN  IF ~recipient.isdict \/ recipient.acc.k = "absent"
                    THEN thread' = [thread EXCEPT ![t].j = @ + 1]
                    ELSE IF recipient.acc.k # "list"
                    THEN thread' = [thread EXCEPT
                                      ![t].pc = "returned",
                                      ![t].result = Raise("TypeError", <<>>)]
                    ELSE IF \E n \in 1..Len(recipient.acc.l) :
                                PyStr(recipient.acc.l[n]) = item.f["category"]
                    THEN thread' = [thread EXCEPT
                                      ![Frame(t)].acc =
                                          Append(@, Match(item, recipient)),
                                      ![t].i = @ + 1,
                                      ![t].j = 1]
                    ELSE thread' = [thread EXCEPT ![t].j = @ + 1]
    /\ ThreadFrame

\* sorted_items = food_items.copy()
ThreadSortCopy(t) ==
    /\ thread[t].pc = "loop"
    /\ thread[t].op = "sort_items_by_expiration"
    /\ thread[t].i = 1
    /\ thread' = [thread EXCEPT ![Frame(t)].acc = inventory, ![t].i = 2]
    /\ ThreadFrame

\* return sorted(sorted_items, key=...)
ThreadSortReturn(t) ==
    /\ thread[t].pc = "loop"
    /\ thread[t].op = "sort_items_by_expiration"
    /\ thread[t].i = 2
    /\ thread' = [thread EXCEPT
                     ![t].pc = "returned",
                     ![t].result =
                         sort_items_by_expiration(
                             List(thread[Frame(t)].acc))]
    /\ ThreadFrame

\* the loop is over: return expiring_items, return matches
ThreadReturn(t) ==
    /\ thread[t].pc = "loop"
    /\ thread[t].op \in {"identify_expiring_items", "match_donations"}
    /\ thread[t].i > Len(inventory)
    /\ thread' = [thread EXCEPT
                     ![t].pc = "returned",
                     ![t].result = Return(thread[Frame(t)].acc)]
    /\ ThreadFrame

\* the caller takes the result and is ready for another call
ThreadDone(t) ==
    /\ thread[t].pc = "returned"
    /\ thread' = [thread EXCEPT ![t] = Ready]
    /\ ThreadFrame

ThreadNext ==
    \E t \in Threads :
        \/ ThreadCall(t)
        \/ ThreadIdentifyStep(t)
        \/ ThreadMatchStep(t)
        \/ ThreadSortCopy(t)
        \/ ThreadSortReturn(t)
        \/ ThreadReturn(t)
        \/ ThreadDone(t)

SpecThreads == ThreadInit /\ [][ThreadNext]_vars

\* what the call thread t is in returns when it runs alone
RunAlone(t) ==
    Apply(thread[t].op, List(inventory),
          IF thread[t].op = "match_donations" THEN List(shared_recipients)
          ELSE thread[t].days_threshold)

\* C22: whatever the interleaving of the steps of the threads, a call
\* returns what it returns when it runs alone on the shared lists
C22_ThreadsDoNotInterfere ==
    \A t \in Threads :
        thread[t].pc = "returned" => thread[t].result = RunAlone(t)

\* both threads returned from calls on an inventory of two records, one
\* from the filter and one from the matcher, each with a list of its own
C22_Witness ==
    /\ Len(inventory) = 2
    /\ thread[1].pc = "returned"
    /\ thread[2].pc = "returned"
    /\ thread[1].op = "identify_expiring_items"
    /\ thread[2].op = "match_donations"
    /\ thread[1].result.exc = ""
    /\ thread[2].result.exc = ""
    /\ Len(thread[1].result.val) = 1
    /\ Len(thread[2].result.val) = 2

---------------------------------------------------------------------------
(* Purity: the same call twice *)

=============================================================================
